---- MODULE Spec2Model ----
(***************************************************************************)
(* Lingshu MCP: the Tool Provider (mcp_server_lingshu.py) and the          *)
(* Orchestrating Agent (mcp_client_lingshu.py).                            *)
(*                                                                         *)
(* Python values that may be None are tagged records:                      *)
(*   None, Str(s), List(xs), Dict(items).                                  *)
(* Strings the code inspects character by character (question, the base64  *)
(* image) are tuples of one-character strings; all other strings are       *)
(* atomic.  Text built by concatenation (messages, f-strings) is the tuple *)
(* of its fragments; a prompt is the record of the template chosen and the *)
(* values interpolated into it.                                            *)
(***************************************************************************)
EXTENDS Integers, Sequences, FiniteSets, Bags, TLC

VARIABLES
  \* --- Tool Provider (mcp_server_lingshu.py)
  files,          \* the provider's file system: path -> bytes of the file
  waiting,        \* bag of the coroutines suspended in `await generate(...)`:
                  \*   [call, frame, requests]
  spc,            \* "returned" while the result of an ended invocation is sent
  call,           \* the invocation that ended: [tool, args]
  upstream,       \* what its await on the endpoint produced
  outcome,        \* [raised, value]: what it hands to its caller
  backend_calls,  \* the chat-completion requests it sent
  \* --- Orchestrating Agent (mcp_client_lingshu.py)
  mcp_server_url, \* args.mcp_url
  entry,          \* the coroutine run: "main" | "test_image_analysis"
  apc,            \* agent position
  session_url,    \* URL of the Client the coroutine opened (None before)
  tools,          \* what list_tools returned
  tool_schemas,   \* the function-calling schemas built from tools
  message,        \* response.choices[0].message of the reasoning model
  idx,            \* position of the for loop in message.tool_calls
  invocations,    \* tool invocations sent: [url, tool_name, params, state]
  stdout          \* what the agent printed

pvars == <<files, waiting, spc, call, upstream, outcome, backend_calls>>
avars == <<mcp_server_url, entry, apc, session_url, tools, tool_schemas, message,
           idx, invocations, stdout>>
vars == <<pvars, avars>>

----------------------------------------------------------------------------
(* Bounds of the model *)

MaxQuestionLen == 2
MaxFindings == 2
MaxInFlight == 2
MaxTools == 3
MaxToolCalls == 2

----------------------------------------------------------------------------
(* Python values *)

None == [type |-> "NoneType"]
Str(s) == [type |-> "str", val |-> s]
List(xs) == [type |-> "list", val |-> xs]
Dict(items) == [type |-> "dict", val |-> items]

\* bool(v) for an Optional sized value (str, list, dict)
Truthy(v) == v.type # "NoneType" /\ Len(v.val) > 0

Returned(v) == [raised |-> FALSE, value |-> v]
Raised(cls, msg) == [raised |-> TRUE, class |-> cls, msg |-> msg]

----------------------------------------------------------------------------
(* datetime *)

Instants == [date : {"2025-07-01"}, time : {"09:30:00"}, microsecond : {0, 123456}]

\* datetime.isoformat(): the fraction is omitted when microsecond is 0
isoformat(dt) ==
  IF dt.microsecond = 0
  THEN <<dt.date, "T", dt.time>>
  ELSE <<dt.date, "T", dt.time, ".", dt.microsecond>>

\* the two shapes isoformat() produces, both of which datetime.fromisoformat reads
IsoParseable(s) ==
  /\ Len(s) \in {3, 5}
  /\ s[2] = "T"
  /\ Len(s) = 5 => (s[4] = "." /\ s[5] \in Nat)

strftime(dt, fmt) == <<fmt, dt.date>>

----------------------------------------------------------------------------
(* base64.b64encode(...).decode("utf-8") over a tuple of bytes *)

B64Alphabet ==
  <<"A","B","C","D","E","F","G","H","I","J","K","L","M","N","O","P",
    "Q","R","S","T","U","V","W","X","Y","Z","a","b","c","d","e","f",
    "g","h","i","j","k","l","m","n","o","p","q","r","s","t","u","v",
    "w","x","y","z","0","1","2","3","4","5","6","7","8","9","+","/">>

B64Char(n) == B64Alphabet[n + 1]

RECURSIVE b64encode(_)
b64encode(b) ==
  IF Len(b) = 0 THEN <<>>
  ELSE IF Len(b) = 1 THEN
    <<B64Char(b[1] \div 4), B64Char((b[1] % 4) * 16), "=", "=">>
  ELSE IF Len(b) = 2 THEN
    <<B64Char(b[1] \div 4), B64Char((b[1] % 4) * 16 + b[2] \div 16),
      B64Char((b[2] % 16) * 4), "=">>
  ELSE
    <<B64Char(b[1] \div 4), B64Char((b[1] % 4) * 16 + b[2] \div 16),
      B64Char((b[2] % 16) * 4 + b[3] \div 64), B64Char(b[3] % 64)>>
    \o b64encode(SubSeq(b, 4, Len(b)))

\* mutant: the file is opened in a mode that creates it when it is missing
open_read_creating(path, fs) ==
  Returned(IF path \in DOMAIN fs THEN fs[path] ELSE <<>>)

\* open(image_path, "rb").read(); str(FileNotFoundError) has the path in quotes
open_read(path, fs) ==
  IF path \in DOMAIN fs
  THEN Returned(fs[path])
  ELSE Raised("FileNotFoundError",
              <<"[Errno 2] No such file or directory: ", "'", path, "'">>)

----------------------------------------------------------------------------
(* str.strip(), str.upper(), str.title(), json.dumps *)

Whitespace == {" ", "\t"}

RECURSIVE lstrip(_)
lstrip(s) ==
  IF Len(s) > 0 /\ s[1] \in Whitespace THEN lstrip(Tail(s)) ELSE s

RECURSIVE rstrip(_)
rstrip(s) ==
  IF Len(s) > 0 /\ s[Len(s)] \in Whitespace
  THEN rstrip(SubSeq(s, 1, Len(s) - 1)) ELSE s

strip(s) == rstrip(lstrip(s))

upper(s) ==
  CASE s = "diagnostic" -> "DIAGNOSTIC"
    [] s = "follow_up" -> "FOLLOW_UP"
    [] OTHER -> s

title(s) ==
  CASE s = "diagnostic" -> "Diagnostic"
    [] s = "follow_up" -> "Follow_Up"
    [] OTHER -> s

RECURSIVE json_items(_)
json_items(items) ==
  IF Len(items) = 0 THEN <<>>
  ELSE <<"\n  ", "\"", items[1][1], "\": \"", items[1][2], "\"">>
       \o (IF Len(items) > 1 THEN <<",">> ELSE <<>>)
       \o json_items(Tail(items))

\* json.dumps(d, indent=2) of a dict of string values
json_dumps(d) ==
  IF Len(d.val) = 0 THEN <<"{}">>
  ELSE <<"{">> \o json_items(d.val) \o <<"\n", "}">>

----------------------------------------------------------------------------
(* LingshuModelClient.generate *)

LINGSHU_MODEL == "Lingshu-7B"

\* CancelledError derives from BaseException, not from Exception
IsException(class) == class # "CancelledError"

\* the request chat.completions.create receives
ChatRequest(prompt, image_data, max_tokens, temperature) ==
  [ model |-> LINGSHU_MODEL,
    messages |-> <<[ role |-> "user",
                     content |->
                       IF Truthy(image_data)
                       THEN [ type |-> "parts",
                              text |-> prompt,
                              image_url |-> <<"data:image/png;base64,">> \o image_data.val ]
                       ELSE [ type |-> "text", text |-> prompt ] ]>>,
    max_tokens |-> max_tokens,
    temperature |-> temperature ]

\* response.choices[0].message.content, with the faults the subscripts raise;
\* `reply` is what the await on create() produced
first_content(reply) ==
  IF reply.raised THEN reply
  ELSE IF reply.choices.type = "NoneType"
    THEN Raised("TypeError", <<"'NoneType' object is not subscriptable">>)
  ELSE IF Len(reply.choices.val) = 0
    THEN Raised("IndexError", <<"list index out of range">>)
  ELSE Returned(reply.choices.val[1].message.content)

\* generate, after its await: return the content, or
\* except Exception as e: raise Exception(f"Lingshu model call failed: {str(e)}")
generate(reply) ==
  LET r == first_content(reply) IN
  IF r.raised /\ IsException(r.class)
  THEN Raised("Exception", <<"Lingshu model call failed: ">> \o r.msg)
  ELSE r

----------------------------------------------------------------------------
(* The tools.  Each runs to its await on generate (begin), is suspended while *)
(* the endpoint works, and goes on when the await produces a reply (resume). *)

\* mutant: the handler catches OSError instead of Exception
except_OSError(r, now) ==
  IF r.raised /\ r.class = "FileNotFoundError"
  THEN Returned([ status |-> "error", error |-> r.msg, timestamp |-> isoformat(now) ])
  ELSE r

\* except Exception as e: return {"status": "error", "error": str(e), "timestamp": ...}
except_Exception(r, now) ==
  IF r.raised /\ IsException(r.class)
  THEN Returned([ status |-> "error", error |-> r.msg, timestamp |-> isoformat(now) ])
  ELSE r

valid_types == {"radiology", "pathology", "dermatology", "ophthalmology", "general"}

\* mutant: the unrecognised value is passed on as it is
normalize_analysis_type_unchecked(analysis_type) == analysis_type

normalize_analysis_type(analysis_type) ==
  IF analysis_type \notin valid_types THEN "general" ELSE analysis_type

select_template(language) == IF language = "en" THEN "en" ELSE "zh"

analysis_prompt(analysis_type, patient_context, language) ==
  [ tool |-> "analyze_medical_image",
    template |-> select_template(language),
    analysis_type |-> analysis_type,
    patient_context |-> patient_context ]

\* the coroutine ended without awaiting
Finished(r) == [suspended |-> FALSE, outcome |-> r]
\* the coroutine awaits the endpoint: its locals and the request it sent
Suspended(frame, request) == [suspended |-> TRUE, frame |-> frame, request |-> request]

\* lines 86-169: up to `await lingshu_client.generate(...)`
analyze_medical_image_begin(a, fs, now) ==
  IF a.image_path = ""
  THEN Finished(Returned([error |-> <<"No image data provided">>]))
  ELSE
    LET f == open_read(a.image_path, fs) IN
    IF f.raised THEN Finished(except_Exception(f, now))
    ELSE
      LET image_base64 == b64encode(f.value)
          type == normalize_analysis_type(a.analysis_type)
          prompt == analysis_prompt(type, a.patient_context, a.language)
      IN Suspended([analysis_type |-> type, language |-> a.language],
                   ChatRequest(prompt, Str(image_base64), 2048, "0.1"))

\* lines 164-186: from the await on
analyze_medical_image_resume(a, frame, reply, now) ==
  LET result == generate(reply) IN
  IF result.raised THEN except_Exception(result, now)
  ELSE Returned([ status |-> "success",
                  analysis_type |-> frame.analysis_type,
                  language |-> frame.language,
                  report |-> result.value,
                  timestamp |-> isoformat(now),
                  model |-> "lingshu" ])

bullets(findings) == [i \in 1 .. Len(findings) |-> <<"* ", findings[i]>>]

report_prompt(findings, report_type, patient_info, language, template, today) ==
  LET findings_text == bullets(findings)
      patient_text ==
        IF Truthy(patient_info)
        THEN <<"Patient Information:\n">> \o json_dumps(patient_info) \o <<"\n">>
        ELSE <<>>
      en == select_template(language) = "en"
  IN [ tool |-> "generate_medical_report",
       template |-> select_template(language),
       report_type |-> report_type,
       findings_text |-> findings_text,
       patient_text |-> IF Len(patient_text) > 0 THEN patient_text
                        ELSE IF en THEN <<"Not provided">> ELSE <<"zh:Not provided">>,
       heading |-> upper(report_type),
       date |-> strftime(today, IF en THEN "%Y-%m-%d" ELSE "%Y/%m/%d (zh)"),
       report_type_line |-> IF en THEN title(report_type) ELSE report_type,
       detail |-> template ]

\* lines 210-299: up to the await; `today` is the datetime.now() of the prompt
generate_medical_report_begin(a, today) ==
  IF Len(a.findings) = 0
  THEN Finished(Returned([error |-> <<"No medical findings provided">>]))
  ELSE
    LET info == IF ~Truthy(a.patient_info) THEN Dict(<<>>) ELSE a.patient_info
        prompt == report_prompt(a.findings, a.report_type, info, a.language,
                                a.template, today)
    IN Suspended([findings_count |-> Len(a.findings)],
                 ChatRequest(prompt, None, 3072, "0.1"))

\* lines 295-318
generate_medical_report_resume(a, frame, reply, now) ==
  LET result == generate(reply) IN
  IF result.raised THEN except_Exception(result, now)
  ELSE Returned([ status |-> "success",
                  report_type |-> a.report_type,
                  template |-> a.template,
                  language |-> a.language,
                  report |-> result.value,
                  findings_count |-> frame.findings_count,
                  timestamp |-> isoformat(now),
                  model |-> "lingshu" ])

qa_prompt(question, context, specialty, language) ==
  LET en == select_template(language) = "en" IN
  [ tool |-> "medical_qa",
    template |-> select_template(language),
    specialty |-> specialty,
    question |-> question,
    context |-> IF context # "" THEN context
                ELSE IF en THEN "No additional context provided"
                ELSE "zh:No additional context provided",
    disclaimer |-> TRUE ]

\* lines 340-381: up to the await
medical_qa_begin(a) ==
  IF Len(strip(a.question)) = 0
  THEN Finished(Returned([error |-> <<"No question provided">>]))
  ELSE Suspended([question |-> a.question],
                 ChatRequest(qa_prompt(a.question, a.context, a.specialty, a.language),
                             None, 2048, "0.2"))

\* lines 377-399
medical_qa_resume(a, frame, reply, now) ==
  LET result == generate(reply) IN
  IF result.raised THEN except_Exception(result, now)
  ELSE Returned([ status |-> "success",
                  question |-> frame.question,
                  specialty |-> a.specialty,
                  language |-> a.language,
                  answer |-> result.value,
                  timestamp |-> isoformat(now),
                  model |-> "lingshu" ])

\* the rest of a suspended coroutine, by the tool it runs
resume(w, reply, now) ==
  CASE w.call.tool = "analyze_medical_image" ->
         analyze_medical_image_resume(w.call.args, w.frame, reply, now)
    [] w.call.tool = "generate_medical_report" ->
         generate_medical_report_resume(w.call.args, w.frame, reply, now)
    [] w.call.tool = "medical_qa" ->
         medical_qa_resume(w.call.args, w.frame, reply, now)

----------------------------------------------------------------------------
(* Inputs *)

BoundedSeq(S, n) == UNION {[1 .. m -> S] : m \in 0 .. n}

FileSystems ==
  { [p \in {"lung.png", "empty.png"} |-> IF p = "lung.png" THEN <<137, 80, 78, 71>> ELSE <<>>] }
AnalysisTypes == valid_types \cup {"cardiology"}

\* every kind of path with every analysis type, and the other parameters on an
\* empty image
AnalyzeArgs ==
  [ image_path : {"", "lung.png", "missing.png"}, analysis_type : AnalysisTypes,
    patient_context : {""}, language : {"zh"} ]
  \cup
  { [ image_path |-> "empty.png", analysis_type |-> "radiology",
      patient_context |-> "55-year-old male, smoker", language |-> "en" ] }

FindingLists == BoundedSeq({"8mm nodule in right upper lobe"}, MaxFindings)
PatientInfos == {None, Dict(<<>>), Dict(<< <<"age", "55">>, <<"sex", "M">> >>)}

\* every number of findings, and every kind of patient_info on one finding
ReportArgs ==
  [ findings : FindingLists, report_type : {"diagnostic"}, patient_info : {None},
    language : {"zh"}, template : {"standard"} ]
  \cup
  [ findings : {<<"8mm nodule in right upper lobe">>}, report_type : {"follow_up"},
    patient_info : PatientInfos \ {None}, language : {"en"}, template : {"brief"} ]

\* every blank question up to the bound, and a question with a word in it
Blanks == {" ", "\t"}
Questions == BoundedSeq(Blanks, MaxQuestionLen) \cup {<<"q">>}

QaArgs ==
  [ question : Questions, context : {""}, specialty : {"general"}, language : {"zh"} ]
  \cup
  { [ question |-> <<" ", "q", "\t">>, context |-> "post-operative day 2",
      specialty |-> "radiology", language |-> "en" ] }

Contents == {None, Str(""), Str("Findings: no acute abnormality.")}

\* what the chat-completions endpoint can answer
Replies ==
  { Raised("APIConnectionError", <<"Connection error.">>) }
  \cup { [raised |-> FALSE, choices |-> None], [raised |-> FALSE, choices |-> List(<<>>)] }
  \cup { [raised |-> FALSE, choices |-> List(<<[message |-> [content |-> c]]>>)] : c \in Contents }

\* the await is cancelled: CancelledError is thrown into the coroutine
Cancelled == Raised("CancelledError", <<>>)

----------------------------------------------------------------------------
(* Provider actions.  `waiting` holds the suspended coroutines; the other     *)
(* provider variables describe the invocation that ended last, until its     *)
(* result has been sent.                                                     *)

NoCall == [tool |-> "none", args |-> <<>>]
NoReply == [raised |-> FALSE, choices |-> None]

\* an invocation ends: its result goes to the caller
Finish(c, requests, reply, r) ==
  /\ spc = "idle"
  /\ spc' = "returned"
  /\ call' = c
  /\ backend_calls' = requests
  /\ upstream' = reply
  /\ outcome' = r

\* a tool is invoked and runs to its end or to its await
Start(c, b) ==
  IF b.suspended
  THEN /\ BagCardinality(waiting) < MaxInFlight
       /\ waiting' = waiting (+) SetToBag({[call |-> c, frame |-> b.frame,
                                            requests |-> <<b.request>>]})
       /\ UNCHANGED <<spc, call, backend_calls, upstream, outcome>>
  ELSE /\ Finish(c, <<>>, NoReply, b.outcome)
       /\ UNCHANGED waiting

AnalyzeMedicalImage ==
  /\ \E a \in AnalyzeArgs, now \in Instants :
       Start([tool |-> "analyze_medical_image", args |-> a],
             analyze_medical_image_begin(a, files, now))
  /\ UNCHANGED <<files, avars>>

GenerateMedicalReport ==
  /\ \E a \in ReportArgs, today \in Instants :
       Start([tool |-> "generate_medical_report", args |-> a],
             generate_medical_report_begin(a, today))
  /\ UNCHANGED <<files, avars>>

MedicalQa ==
  /\ \E a \in QaArgs :
       Start([tool |-> "medical_qa", args |-> a], medical_qa_begin(a))
  /\ UNCHANGED <<files, avars>>

\* the endpoint answers (or the call faults) and the coroutine runs to its end
BackendReplies ==
  /\ \E w \in BagToSet(waiting), reply \in Replies, now \in Instants :
       /\ waiting' = waiting (-) SetToBag({w})
       /\ Finish(w.call, w.requests, reply, resume(w, reply, now))
  /\ UNCHANGED <<files, avars>>

\* the suspended coroutine is cancelled (the client went away, the server stops)
Cancel ==
  /\ \E w \in BagToSet(waiting), now \in Instants :
       /\ waiting' = waiting (-) SetToBag({w})
       /\ Finish(w.call, w.requests, Cancelled, resume(w, Cancelled, now))
  /\ UNCHANGED <<files, avars>>

\* the result has been handed to the caller; nothing is kept between invocations
Respond ==
  /\ spc = "returned"
  /\ spc' = "idle"
  /\ call' = NoCall
  /\ upstream' = NoReply
  /\ outcome' = Returned(None)
  /\ backend_calls' = <<>>
  /\ UNCHANGED <<files, waiting, avars>>

ProviderNext ==
  \/ AnalyzeMedicalImage
  \/ GenerateMedicalReport
  \/ MedicalQa
  \/ BackendReplies
  \/ Cancel
  \/ Respond

----------------------------------------------------------------------------
(* Orchestrating Agent *)

DEFAULT_MCP_URL == "http://127.0.0.1:4200/lingshu"

\* dict.get(key, default)
get(d, key, default) == IF key \in DOMAIN d THEN d[key] ELSE default

\* d[key]
subscript(d, key) ==
  IF key \in DOMAIN d THEN Returned(d[key])
  ELSE Raised("KeyError", <<"'", key, "'">>)

\* one entry of the list comprehension over tools
to_function_schema(tool) ==
  LET properties == subscript(tool.inputSchema, "properties") IN
  IF properties.raised THEN properties
  ELSE Returned(
    [ type |-> "function",
      function |->
        [ name |-> tool.name,
          description |-> tool.description,
          parameters |->
            [ type |-> get(tool.inputSchema, "type", "object"),
              properties |-> [prop_name \in DOMAIN properties.value |->
                                properties.value[prop_name]],
              required |-> get(tool.inputSchema, "required", <<>>) ] ] ])

\* the list comprehension: the first entry that raises ends it
convert_tools(ts) ==
  LET entries == [i \in 1 .. Len(ts) |-> to_function_schema(ts[i])]
      failed == {i \in 1 .. Len(ts) : entries[i].raised}
  IN IF failed # {}
     THEN entries[CHOOSE i \in failed : \A j \in failed : i <= j]
     ELSE Returned([i \in 1 .. Len(ts) |-> entries[i].value])

\* mutant: "if message.tool_calls is not None:"
has_tool_calls_not_none(m) == m.tool_calls.type # "NoneType"

\* if message.tool_calls:
has_tool_calls(m) == Truthy(m.tool_calls)

\* eval(call.function.arguments)
eval_arguments(arguments) ==
  CASE arguments = "{\"question\": \"How to evaluate lung nodules?\"}" ->
         Returned([question |-> "How to evaluate lung nodules?"])
    [] arguments = "{\"image_path\": \"lung.png\", \"language\": \"en\"}" ->
         Returned([image_path |-> "lung.png", language |-> "en"])
    [] arguments = "{\"question\": \"Is it benign?\", \"urgent\": true}" ->
         Raised("NameError", <<"name 'true' is not defined">>)
    [] OTHER -> Raised("SyntaxError", <<"invalid syntax">>)

\* mutant: the list is walked from its end
loop_call_reversed(m, i) == m.tool_calls.val[Len(m.tool_calls.val) - i + 1]

\* the tool call the for loop handles at position i
loop_call(m, i) == m.tool_calls.val[i]

\* async with Client(...) as client: client.call_tool(tool_name, params)
query_mcp_tool(tool_name, params) ==
  [ url |-> DEFAULT_MCP_URL, tool_name |-> tool_name, params |-> params,
    state |-> "connecting" ]

----------------------------------------------------------------------------
(* Agent inputs *)

McpUrls == {DEFAULT_MCP_URL, "http://10.0.0.7:4200/lingshu"}

StringProp == [type |-> "string"]

\* the descriptors of the three @app.tool registrations of mcp_server_lingshu.py:
\* one property per parameter, with its default; required = the parameters
\* without a default
RegisteredTools ==
  { [ name |-> "analyze_medical_image",
      description |-> "Analyze medical images using Lingshu",
      inputSchema |-> [ type |-> "object",
                        properties |-> [ image_path |-> StringProp,
                                         analysis_type |-> [type |-> "string", default |-> "radiology"],
                                         patient_context |-> [type |-> "string", default |-> ""],
                                         language |-> [type |-> "string", default |-> "zh"] ],
                        required |-> <<"image_path">> ] ],
    [ name |-> "generate_medical_report",
      description |-> "Generate structured medical reports using Lingshu medical model",
      inputSchema |-> [ type |-> "object",
                        properties |-> [ findings |-> [type |-> "array"],
                                         report_type |-> [type |-> "string", default |-> "diagnostic"],
                                         patient_info |-> [type |-> "object", default |-> None],
                                         language |-> [type |-> "string", default |-> "zh"],
                                         template |-> [type |-> "string", default |-> "standard"] ],
                        required |-> <<"findings">> ] ],
    [ name |-> "medical_qa",
      description |-> "Answer medical questions using Lingshu medical model",
      inputSchema |-> [ type |-> "object",
                        properties |-> [ question |-> StringProp,
                                         context |-> [type |-> "string", default |-> ""],
                                         specialty |-> [type |-> "string", default |-> "general"],
                                         language |-> [type |-> "string", default |-> "zh"] ],
                        required |-> <<"question">> ] ] }

\* descriptors of some other provider --mcp-url may name: one whose schema has
\* neither "type" nor "required" (the defaults of the two .get calls), and one of
\* a tool without parameters, whose schema has no "properties"
OtherProviderTools ==
  { [ name |-> "list_specialties",
      description |-> "List the supported specialties",
      inputSchema |-> [ properties |-> [ language |-> [type |-> "string", default |-> "zh"] ] ] ],
    [ name |-> "ping",
      description |-> "Check that the provider is up",
      inputSchema |-> [ type |-> "object" ] ] }

\* what list_tools can return an element of
Descriptors == RegisteredTools \cup OtherProviderTools

\* tool names are unique within one provider
Catalogs ==
  { ts \in BoundedSeq(Descriptors, MaxTools) :
      \A i, j \in 1 .. Len(ts) : i # j => ts[i].name # ts[j].name }

ToolCalls ==
  { [ function |-> [ name |-> "medical_qa",
                     arguments |-> "{\"question\": \"How to evaluate lung nodules?\"}" ] ],
    [ function |-> [ name |-> "analyze_medical_image",
                     arguments |-> "{\"image_path\": \"lung.png\", \"language\": \"en\"}" ] ],
    [ function |-> [ name |-> "medical_qa",
                     arguments |-> "{\"question\": \"Is it benign?\", \"urgent\": true}" ] ] }

Messages ==
  [ content : {None, Str("Assess size, margins, density and growth.")},
    tool_calls : {None} \cup {List(cs) : cs \in BoundedSeq(ToolCalls, MaxToolCalls)} ]

ToolResults == {"CallToolResult(content=[envelope])"}

NoMessage == [content |-> None, tool_calls |-> None]

----------------------------------------------------------------------------

----------------------------------------------------------------------------
(* Agent actions: each runs the coroutine from one await to the next.    *)
(* stdout holds one tuple per print call: the fragments of the line; the *)
(* pictographs and the leading newline of the literals are left out.     *)

Dashes == "----------------------------------------"

\* the for loop from position i to its next await: print, evaluate the arguments,
\* enter query_mcp_tool; or the end of the loop, where the block of
\* `async with Client(mcp_server_url)` is left; an exception leaves it too
run_loop(m, i, out, invs) ==
  IF i > Len(m.tool_calls.val)
  THEN [apc |-> "closing", stdout |-> out, invocations |-> invs]
  ELSE
    LET c == loop_call(m, i)
        params == eval_arguments(c.function.arguments)
        printed == out \o << <<"Executing ", c.function.name, "...">> >>
    IN IF params.raised
       THEN [apc |-> "unwinding", stdout |-> printed, invocations |-> invs]
       ELSE [apc |-> "awaiting", stdout |-> printed,
             invocations |-> Append(invs, query_mcp_tool(c.function.name, params.value))]

settle(invs, state) ==
  [invs EXCEPT ![Len(invs)] = [invs[Len(invs)] EXCEPT !.state = state]]

\* the invocations that have begun and not ended
in_flight(invs) == {i \in 1 .. Len(invs) : invs[i].state \in {"connecting", "in_flight"}}

\* main: `async with Client(mcp_server_url)` is entered, list_tools is sent
Connect ==
  /\ entry = "main" /\ apc = "start"
  /\ session_url' = Str(mcp_server_url)
  /\ apc' = "listing"
  /\ UNCHANGED <<mcp_server_url, entry, tools, tool_schemas, message, idx,
                 invocations, stdout>>
  /\ UNCHANGED pvars

\* main: list_tools returned; the schemas are built and printed, the reasoning
\* model is called; or building the schemas raises and nothing catches it
ListTools ==
  /\ entry = "main" /\ apc = "listing"
  /\ \E ts \in Catalogs :
       LET schemas == convert_tools(ts) IN
       /\ tools' = ts
       /\ IF schemas.raised
          THEN /\ apc' = "unwinding"
               /\ UNCHANGED <<tool_schemas, stdout>>
          ELSE /\ tool_schemas' = schemas.value
               /\ stdout' = stdout \o << <<Dashes>>, <<"Available tools:">> >>
                                   \o [i \in 1 .. Len(ts) |-> <<"- ", ts[i], "\n">>]
                                   \o << <<Dashes>> >>
               /\ apc' = "discovered"
  /\ UNCHANGED <<mcp_server_url, entry, session_url, message, idx, invocations>>
  /\ UNCHANGED pvars

\* inside the block of `async with Client(mcp_server_url)`: an exception raised
\* there makes the Client close before it goes on
in_block(pc) == pc \in {"listing", "discovered", "awaiting"}

\* the await raised: the Client cannot connect, list_tools fails, the reasoning
\* model call fails, or the Client fails to close; nothing catches it
AgentFault ==
  /\ \/ entry = "main" /\ apc \in {"start", "listing", "discovered", "closing"}
     \/ entry = "test_image_analysis" /\ apc \in {"connecting", "closing"}
  /\ apc' = IF in_block(apc) THEN "unwinding" ELSE "raised"
  /\ UNCHANGED <<mcp_server_url, entry, session_url, tools, tool_schemas, message,
                 idx, invocations, stdout>>
  /\ UNCHANGED pvars

\* the block was left normally and the Client has closed: the coroutine returns
Close ==
  /\ apc = "closing"
  /\ apc' = "done"
  /\ UNCHANGED <<mcp_server_url, entry, session_url, tools, tool_schemas, message,
                 idx, invocations, stdout>>
  /\ UNCHANGED pvars

\* the block was left by an exception and the Client has closed, or failed to:
\* the coroutine raises
Unwind ==
  /\ apc = "unwinding"
  /\ apc' = "raised"
  /\ UNCHANGED <<mcp_server_url, entry, session_url, tools, tool_schemas, message,
                 idx, invocations, stdout>>
  /\ UNCHANGED pvars

\* main: the reasoning model replied; lines 108-125 up to the next await
AskModel ==
  /\ entry = "main" /\ apc = "discovered"
  /\ \E m \in Messages :
       LET out == stdout \o << <<m.tool_calls>> >> IN
       /\ message' = m
       /\ IF has_tool_calls(m)
          THEN LET r == run_loop(m, 1, out \o << <<"Tool call request detected:">> >>,
                                 invocations)
               IN /\ apc' = r.apc
                  /\ stdout' = r.stdout
                  /\ invocations' = r.invocations
          ELSE /\ apc' = "closing"
               /\ stdout' = out \o << <<"Direct reply:", m.content>> >>
               /\ UNCHANGED invocations
  /\ idx' = 1
  /\ UNCHANGED <<mcp_server_url, entry, session_url, tools, tool_schemas>>
  /\ UNCHANGED pvars

\* query_mcp_tool: its Client is connected, call_tool is sent
ToolConnected ==
  /\ apc = "awaiting"
  /\ invocations # <<>> /\ invocations[Len(invocations)].state = "connecting"
  /\ invocations' = settle(invocations, "in_flight")
  /\ UNCHANGED <<mcp_server_url, entry, apc, session_url, tools, tool_schemas, message,
                 idx, stdout>>
  /\ UNCHANGED pvars

\* call_tool returned: the result is printed; main goes on with its loop
Complete ==
  /\ apc = "awaiting"
  /\ invocations # <<>> /\ invocations[Len(invocations)].state = "in_flight"
  /\ \E result \in ToolResults :
       IF entry = "main"
       THEN LET r == run_loop(message, idx + 1,
                              stdout \o << <<"Tool returned: ", result>> >>,
                              settle(invocations, "returned"))
            IN /\ apc' = r.apc
               /\ stdout' = r.stdout
               /\ invocations' = r.invocations
               /\ idx' = idx + 1
       ELSE /\ apc' = "closing"
            /\ stdout' = stdout \o << <<result>> >>
            /\ invocations' = settle(invocations, "returned")
            /\ UNCHANGED idx
  /\ UNCHANGED <<mcp_server_url, entry, session_url, tools, tool_schemas, message>>
  /\ UNCHANGED pvars

\* query_mcp_tool raised (its Client cannot connect, or call_tool fails):
\* nothing catches it
InvocationFault ==
  /\ apc = "awaiting"
  /\ in_flight(invocations) # {}
  /\ invocations' = settle(invocations, "raised")
  /\ apc' = "unwinding"
  /\ UNCHANGED <<mcp_server_url, entry, session_url, tools, tool_schemas, message,
                 idx, stdout>>
  /\ UNCHANGED pvars

test_image_path == "./lung.jpeg"

\* test_image_analysis, lines 37-44: the two prints, then the Client connects
TestImageAnalysis ==
  /\ entry = "test_image_analysis" /\ apc = "start"
  /\ stdout' = stdout \o << <<"Testing medical image analysis...">>,
                           <<"Note: This test requires a real medical image file">> >>
  /\ apc' = "connecting"
  /\ UNCHANGED <<mcp_server_url, entry, session_url, tools, tool_schemas, message,
                 idx, invocations>>
  /\ UNCHANGED pvars

\* test_image_analysis, lines 44-60: connected; os.path.exists decides
TestConnected ==
  /\ entry = "test_image_analysis" /\ apc = "connecting"
  /\ session_url' = Str(mcp_server_url)
  /\ \E exists \in BOOLEAN :
       IF exists
       THEN /\ invocations' =
                 Append(invocations,
                        query_mcp_tool("analyze_medical_image",
                                       [ image_path |-> test_image_path,
                                         analysis_type |-> "radiology",
                                         patient_context |-> "55-year-old male patient, 20-year smoking history, abnormality found in lung during physical examination",
                                         language |-> "en" ]))
            /\ apc' = "awaiting"
            /\ UNCHANGED stdout
       ELSE /\ stdout' = stdout \o
                 << <<"Test image file does not exist, skipping image analysis test">> >>
            /\ apc' = "closing"
            /\ UNCHANGED invocations
  /\ UNCHANGED <<mcp_server_url, entry, tools, tool_schemas, message, idx>>
  /\ UNCHANGED pvars

AgentNext ==
  \/ Connect
  \/ ListTools
  \/ AgentFault
  \/ Close
  \/ Unwind
  \/ AskModel
  \/ ToolConnected
  \/ Complete
  \/ InvocationFault
  \/ TestImageAnalysis
  \/ TestConnected

\* The provider process alone: the agent script has not been started
ProviderSpecInit ==
  /\ files \in FileSystems
  /\ waiting = EmptyBag
  /\ spc = "idle"
  /\ call = NoCall
  /\ upstream = NoReply
  /\ outcome = Returned(None)
  /\ backend_calls = <<>>
  /\ mcp_server_url = DEFAULT_MCP_URL
  /\ entry = "test_image_analysis"
  /\ apc = "start"
  /\ session_url = None
  /\ tools = <<>>
  /\ tool_schemas = <<>>
  /\ message = NoMessage
  /\ idx = 1
  /\ invocations = <<>>
  /\ stdout = <<>>

\* The agent script alone: the provider is idle
AgentSpecInit ==
  /\ files \in FileSystems
  /\ waiting = EmptyBag
  /\ spc = "idle"
  /\ call = NoCall
  /\ upstream = NoReply
  /\ outcome = Returned(None)
  /\ backend_calls = <<>>
  /\ mcp_server_url \in McpUrls
  /\ entry \in {"main", "test_image_analysis"}
  /\ apc = "start"
  /\ session_url = None
  /\ tools = <<>>
  /\ tool_schemas = <<>>
  /\ message = NoMessage
  /\ idx = 1
  /\ invocations = <<>>
  /\ stdout = <<>>

ProviderSpec == ProviderSpecInit /\ [][ProviderNext]_vars

AgentSpec == AgentSpecInit /\ [][AgentNext]_vars

----------------------------------------------------------------------------
(* Properties of the Tool Provider, checked under ProviderSpec *)

envelope == outcome.value
returned == spc = "returned"
has(field) == field \in DOMAIN envelope
EnumeratedTypes == {"radiology", "pathology", "dermatology", "ophthalmology", "general"}

\* the invocation's input is one the validation rejects
InvalidInput ==
  \/ call.tool = "analyze_medical_image" /\ call.args.image_path = ""
  \/ call.tool = "generate_medical_report" /\ Len(call.args.findings) = 0
  \/ call.tool = "medical_qa"
       /\ \A i \in 1 .. Len(call.args.question) : call.args.question[i] \in {" ", "\t"}

\* the image path is not empty and names no file of the provider's file system
ImageUnreadable ==
  /\ call.tool = "analyze_medical_image"
  /\ call.args.image_path # ""
  /\ call.args.image_path \notin DOMAIN files

ImageReadable ==
  /\ call.tool = "analyze_medical_image"
  /\ call.args.image_path # ""
  /\ call.args.image_path \in DOMAIN files

\* the endpoint was called and failed: a network fault or a response without a
\* first completion
BackendFailed ==
  /\ backend_calls # <<>>
  /\ IF upstream.raised THEN IsException(upstream.class)
     ELSE \/ upstream.choices.type = "NoneType"
          \/ Len(upstream.choices.val) = 0

\* the await was cancelled: CancelledError leaves the operation, as asyncio requires
WasCancelled == backend_calls # <<>> /\ upstream = Cancelled

BackendFaultText ==
  IF upstream.raised THEN upstream.msg
  ELSE IF upstream.choices.type = "NoneType"
    THEN <<"'NoneType' object is not subscriptable">>
  ELSE <<"list index out of range">>

IsSuccess == returned /\ ~outcome.raised /\ has("status") /\ envelope.status = "success"
IsError == returned /\ ~outcome.raised /\ has("status") /\ envelope.status = "error"

\* C1: every envelope a tool returns, on every return path, has a status that is
\* 'success' or 'error' and a timestamp; a 'success' envelope also has the model
\* attribution.
C1_EveryEnvelopeHasStatusAndTimestamp ==
  (returned /\ ~outcome.raised) =>
    /\ has("status")
    /\ envelope.status \in {"success", "error"}
    /\ has("timestamp")
    /\ envelope.status = "success" => has("model")

\* C2: an input the validation rejects (empty image_path, empty findings, blank
\* question) yields an envelope with status 'error' and no backend call is made.
C2_ValidationErrorEnvelopeNoBackend ==
  (returned /\ InvalidInput) =>
    /\ ~outcome.raised
    /\ has("status")
    /\ envelope.status = "error"
    /\ backend_calls = <<>>

\* C3: whatever fails while an operation runs (the image cannot be read, the
\* backend call faults, the response has no first completion), the operation
\* does not raise: it returns an envelope with status 'error', the failure's
\* description in 'error', and a timestamp.
C3_FailuresBecomeErrorEnvelopes ==
  (returned /\ ~InvalidInput /\ (ImageUnreadable \/ BackendFailed)) =>
    /\ ~outcome.raised
    /\ has("status") /\ envelope.status = "error"
    /\ has("error")
    /\ envelope.error =
         IF ImageUnreadable
         THEN <<"[Errno 2] No such file or directory: ", "'", call.args.image_path, "'">>
         ELSE <<"Lingshu model call failed: ">> \o BackendFaultText
    /\ has("timestamp") /\ IsoParseable(envelope.timestamp)

\* a response without choices reached medical_qa and came back as an error envelope
C3_Witness ==
  /\ returned
  /\ call.tool = "medical_qa"
  /\ BackendFailed /\ ~upstream.raised
  /\ IsError
  /\ envelope.error = <<"Lingshu model call failed: ", "list index out of range">>

\* C4: analyze_medical_image with a non-empty image_path that names no readable
\* file returns an 'error' envelope and makes no backend call.
C4_MissingFileNoBackendCall ==
  (returned /\ ImageUnreadable) =>
    /\ IsError
    /\ backend_calls = <<>>

\* a missing file was rejected while another invocation waits for the endpoint
C4_Witness ==
  /\ returned /\ ImageUnreadable
  /\ call.args.image_path = "missing.png"
  /\ IsError
  /\ envelope.error = <<"[Errno 2] No such file or directory: ", "'", "missing.png", "'">>
  /\ backend_calls = <<>>
  /\ waiting # EmptyBag

payload ==
  IF call.tool = "medical_qa" THEN "answer" ELSE "report"

\* C5: every 'success' envelope has a parseable timestamp and a non-empty payload
\* ('report' for analyze_medical_image and generate_medical_report, 'answer' for
\* medical_qa), whatever content the backend's first completion carries.
C5_SuccessHasNonEmptyPayload ==
  IsSuccess =>
    /\ has("timestamp") /\ IsoParseable(envelope.timestamp)
    /\ has(payload)
    /\ envelope[payload].type = "str"
    /\ envelope[payload].val # ""

prompted_type == backend_calls[1].messages[1].content.text.analysis_type
expected_type(given) == IF given \in EnumeratedTypes THEN given ELSE "general"

\* C6: analyze_medical_image with a readable image makes the backend call with the
\* analysis_type unchanged when it is one of the five enumerated values and with
\* 'general' otherwise; the value causes no error, and a success envelope reports
\* a member of the enumerated set.
C6_AnalysisTypeNormalized ==
  /\ \A w \in BagToSet(waiting) :
       w.call.tool = "analyze_medical_image" =>
         /\ Len(w.requests) = 1
         /\ w.requests[1].messages[1].content.text.analysis_type =
              expected_type(w.call.args.analysis_type)
  /\ (returned /\ ImageReadable) =>
       /\ Len(backend_calls) = 1
       /\ prompted_type = expected_type(call.args.analysis_type)
       /\ IsSuccess \/ (IsError /\ BackendFailed) \/ (outcome.raised /\ WasCancelled)
       /\ IsSuccess => (envelope.analysis_type \in EnumeratedTypes
                        /\ envelope.analysis_type = prompted_type)

\* an unrecognised type was replaced and the call succeeded
C6_Witness ==
  /\ returned /\ ImageReadable
  /\ call.args.analysis_type = "cardiology"
  /\ IsSuccess
  /\ envelope.analysis_type = "general"
  /\ prompted_type = "general"

----------------------------------------------------------------------------
(* Properties of the Orchestrating Agent, checked under AgentSpec *)

requested == message.tool_calls.val
NoToolCalls == message.tool_calls.type = "NoneType" \/ Len(message.tool_calls.val) = 0
Ended == apc \in {"done", "raised"}
InMain == entry = "main"

InOrder ==
  /\ Len(invocations) <= Len(requested)
  /\ \A i \in 1 .. Len(invocations) :
       /\ invocations[i].tool_name = requested[i].function.name
       /\ LET e == eval_arguments(requested[i].function.arguments)
          IN ~e.raised /\ invocations[i].params = e.value

OneAtATime ==
  \A i \in 1 .. Len(invocations) :
    i < Len(invocations) => invocations[i].state = "returned"

\* the for loop ran to its end
LoopEnded == idx > Len(requested)

\* C7, as stated: the provider is invoked once per tool call, in the order given,
\* one invocation at a time.  A run that has ended has invoked every tool call.
C7_OncePerToolCall ==
  (InMain /\ ~NoToolCalls) =>
    /\ InOrder
    /\ OneAtATime
    /\ Ended => Len(invocations) = Len(requested)

\* C7, amended: invocations follow the order of the tool calls, each awaited to its
\* end before the next begins; every tool call is invoked exactly once when the
\* loop runs to its end, and the first evaluation or invocation that raises ends
\* the run with the later tool calls never invoked.  (After the loop the run can
\* still end raising, when the Client fails to close.)
C7_SequentialInOrder ==
  (InMain /\ ~NoToolCalls) =>
    /\ InOrder
    /\ OneAtATime
    /\ Cardinality(in_flight(invocations)) <= 1
    /\ apc \in {"closing", "done"} => LoopEnded
    /\ LoopEnded =>
         /\ Len(invocations) = Len(requested)
         /\ \A i \in 1 .. Len(invocations) : invocations[i].state = "returned"
    /\ (apc \in {"unwinding", "raised"} /\ ~LoopEnded) =>
         /\ in_flight(invocations) = {}
         /\ invocations # <<>> =>
              \/ invocations[Len(invocations)].state = "raised"
              \/ /\ invocations[Len(invocations)].state = "returned"
                 /\ Len(invocations) < Len(requested)

\* two different tools were requested and both were invoked, in that order
C7_Witness ==
  /\ InMain /\ apc = "done" /\ ~NoToolCalls
  /\ Len(requested) = 2
  /\ requested[1].function.name = "medical_qa"
  /\ requested[2].function.name = "analyze_medical_image"
  /\ Len(invocations) = 2
  /\ invocations[1].tool_name = "medical_qa" /\ invocations[1].state = "returned"
  /\ invocations[2].tool_name = "analyze_medical_image"
  /\ invocations[2].state = "returned"

\* C8: a reply with no tool calls (None or an empty list) leads to no tool
\* invocation, and the reply's text is printed as it is.
C8_NoToolCallsDirectReply ==
  (InMain /\ NoToolCalls) =>
    /\ invocations = <<>>
    /\ apc # "awaiting"
    /\ apc \in {"closing", "done"} =>
         stdout[Len(stdout)] = <<"Direct reply:", message.content>>

C8_Witness ==
  /\ InMain /\ apc = "done"
  /\ message.tool_calls = List(<<>>)
  /\ message.content = Str("Assess size, margins, density and growth.")
  /\ invocations = <<>>
  /\ stdout[Len(stdout)] = <<"Direct reply:", message.content>>

Discovered == InMain /\ apc \notin {"start", "listing"}

\* C9: discovery builds one schema per descriptor, in the same order, with the
\* descriptor's name, description and properties unchanged and `required` equal
\* to the descriptor's required list, or the empty list when it has none.
C9_OneSchemaPerDescriptor ==
  Discovered =>
    /\ Len(tool_schemas) = Len(tools)
    /\ \A i \in 1 .. Len(tools) :
         LET f == tool_schemas[i].function
             d == tools[i]
         IN /\ f.name = d.name
            /\ f.description = d.description
            /\ f.parameters.properties = d.inputSchema.properties
            /\ f.parameters.required =
                 IF "required" \in DOMAIN d.inputSchema
                 THEN d.inputSchema.required ELSE <<>>

\* C10: every tool invocation goes to the provider at --mcp-url, the one the
\* agent's own Client is connected to.
C10_InvocationsGoToMcpUrl ==
  \A i \in 1 .. Len(invocations) : invocations[i].url = mcp_server_url

====
